---------------------------- MODULE Spec2Model ----------------------------
(***************************************************************************)
(* Model of the sparse-matrix runtime of cusp: the BiCGstab solver of      *)
(* cusp/krylov/bicgstab.h, statement by statement, the coo_matrix          *)
(* container of cusp/coo_matrix.h and the spmv kernel the solver calls.    *)
(*                                                                         *)
(* Arithmetic.  ValueType is modelled as the exact rationals extended with *)
(* the IEEE-754 special values: a value is a pair <<n, d>>, d > 0 in       *)
(* lowest terms for a finite value, <<1,0>> = +inf, <<-1,0>> = -inf and    *)
(* <<0,0>> = NaN.  Division by zero is therefore what the C++ build does   *)
(* for a floating ValueType (x/0 = +-inf, 0/0 = NaN); rounding is not      *)
(* modelled and zero is unsigned.  nrm2 is represented by its square (the  *)
(* square root is monotone, so every comparison of norms is unchanged).    *)
(***************************************************************************)
EXTENDS Integers, Sequences, FiniteSets, TLC

(***************************************************************************)
(* Bounds of the model.                                                    *)
(***************************************************************************)
MaxEntries == 3      \* largest number of stored entries of a solver matrix
MaxIter == 2         \* largest iteration limit of the stopping criterion
MaxCooEntries == 2   \* largest num_entries of a coo_matrix object
MaxCalls == 2        \* spmv calls made on one output vector

(***************************************************************************)
(* ValueType                                                               *)
(***************************************************************************)
Abs(i) == IF i < 0 THEN -i ELSE i

Sign(i) == IF i < 0 THEN -1 ELSE IF i = 0 THEN 0 ELSE 1

RECURSIVE GCD(_, _)
GCD(i, j) == IF j = 0 THEN i ELSE GCD(j, i % j)

\* lowest terms, positive denominator; a zero denominator keeps only the sign
Norm(n, d) ==
    IF d = 0 THEN <<Sign(n), 0>>
    ELSE LET g == GCD(Abs(n), Abs(d))
             sg == Sign(d)
         IN  <<(sg * n) \div g, (sg * d) \div g>>

Zero == <<0, 1>>
One == <<1, 1>>
NaN == <<0, 0>>
PosInf == <<1, 0>>
NegInf == <<-1, 0>>

FromInt(i) == <<i, 1>>
IsFinite(v) == v[2] # 0
IsNaN(v) == v = NaN

Neg(v) == <<-v[1], v[2]>>

Add(u, v) ==
    IF u[2] = 0 /\ v[2] = 0
    THEN (IF u = v THEN u ELSE NaN)          \* inf + inf, inf - inf, NaN
    ELSE IF u[2] = 0 THEN u
    ELSE IF v[2] = 0 THEN v
    ELSE LET g == GCD(u[2], v[2])            \* over the least common multiple
         IN  Norm(u[1] * (v[2] \div g) + v[1] * (u[2] \div g),
                  (u[2] \div g) * v[2])

Mul(u, v) ==
    IF u[2] = 0 \/ v[2] = 0
    THEN <<Sign(u[1]) * Sign(v[1]), 0>>      \* inf * 0 = NaN, NaN * v = NaN
    ELSE LET g == GCD(Abs(u[1]), v[2])       \* cancel before multiplying
             h == GCD(Abs(v[1]), u[2])
         IN  <<(u[1] \div g) * (v[1] \div h), (u[2] \div h) * (v[2] \div g)>>

Div(u, v) ==
    IF u[2] = 0 /\ v[2] = 0 THEN NaN         \* inf / inf, NaN
    ELSE IF u[2] = 0 THEN <<u[1] * (IF v[1] < 0 THEN -1 ELSE 1), 0>>
    ELSE IF v[2] = 0 THEN (IF v = NaN THEN NaN ELSE Zero)
    ELSE IF v[1] = 0 THEN <<Sign(u[1]), 0>>  \* x / 0 = +-inf, 0 / 0 = NaN
    ELSE Mul(u, <<Sign(v[1]) * v[2], Abs(v[1])>>)

\* u < v as the hardware compares: false as soon as one side is NaN
Less(u, v) ==
    IF u = NaN \/ v = NaN THEN FALSE
    ELSE IF u[2] = 0 /\ v[2] = 0 THEN u[1] < v[1]
    ELSE IF u[2] = 0 THEN u[1] < 0
    ELSE IF v[2] = 0 THEN v[1] > 0
    ELSE u[1] * v[2] < v[1] * u[2]

(***************************************************************************)
(* BLAS-1 facade (cusp/blas.h), with the meaning bicgstab.h documents at   *)
(* each call.  A vector is a function on 0 .. n-1.                         *)
(***************************************************************************)
Indices(v) == DOMAIN v

Fill(v, c) == [i \in DOMAIN v |-> c]

Copy(v) == [i \in DOMAIN v |-> v[i]]

Axpby(u, v, a, c) == [i \in DOMAIN u |-> Add(Mul(a, u[i]), Mul(c, v[i]))]

Axpbypcz(u, v, w, a, c, e) ==
    [i \in DOMAIN u |-> Add(Add(Mul(a, u[i]), Mul(c, v[i])), Mul(e, w[i]))]

RECURSIVE DotFrom(_, _, _)
DotFrom(u, v, i) ==
    IF i \notin DOMAIN u THEN Zero
    ELSE Add(Mul(u[i], v[i]), DotFrom(u, v, i + 1))

Dotc(u, v) == DotFrom(u, v, 0)

\* the SQUARE of the 2-norm
Nrm2(v) == Dotc(v, v)

IsFiniteVec(v) == \A i \in DOMAIN v : IsFinite(v[i])

(***************************************************************************)
(* coo_matrix: shape and three parallel arrays.  An array is a sequence;   *)
(* element k of the C++ array is element k+1 of the sequence.  Row and     *)
(* column indices are 0-based as in the source.                            *)
(***************************************************************************)
coo_matrix(rows, cols, entries, ri, ci, vs) ==
    [num_rows |-> rows, num_cols |-> cols, num_entries |-> entries,
     row_indices |-> ri, column_indices |-> ci, values |-> vs]

LexLess(q, t) == q[1] < t[1] \/ (q[1] = t[1] /\ q[2] < t[2])

\* entries sorted by row, then column, without duplicate position
IsSorted(M) ==
    \A k \in 1 .. Len(M.row_indices) - 1 :
        LexLess(<<M.row_indices[k], M.column_indices[k]>>,
                <<M.row_indices[k + 1], M.column_indices[k + 1]>>)

(***************************************************************************)
(* spmv for a coo_matrix (cusp/spblas.h): y <- A*x.  Entry k contributes   *)
(* values[k] * x[column_indices[k]] to y[row_indices[k]].                  *)
(***************************************************************************)
RECURSIVE SpmvCooFrom(_, _, _, _)
SpmvCooFrom(M, xv, yv, k) ==
    IF k > M.num_entries THEN yv
    ELSE SpmvCooFrom(M, xv,
             [yv EXCEPT ![M.row_indices[k]] =
                 Add(@, Mul(M.values[k], xv[M.column_indices[k]]))],
             k + 1)

\* the kernel that adds A*x to what y holds
SpmvAccumulate(M, xv, yv) == SpmvCooFrom(M, xv, yv, 1)

Spmv(M, xv, yv) == SpmvCooFrom(M, xv, Fill(yv, Zero), 1)

\* the mathematical product A*x, row by row over the dense matrix
RECURSIVE EntryFrom(_, _, _, _)
EntryFrom(M, i, j, k) ==
    IF k > M.num_entries THEN Zero
    ELSE Add(IF M.row_indices[k] = i /\ M.column_indices[k] = j
             THEN M.values[k] ELSE Zero,
             EntryFrom(M, i, j, k + 1))

RECURSIVE RowTimes(_, _, _, _)
RowTimes(M, xv, i, j) ==
    IF j >= M.num_cols THEN Zero
    ELSE Add(Mul(EntryFrom(M, i, j, 1), xv[j]), RowTimes(M, xv, i, j + 1))

MatVec(M, xv) == [i \in 0 .. M.num_rows - 1 |-> RowTimes(M, xv, i, 0)]

(***************************************************************************)
(* Inputs of a solver run: square sorted COO matrices, vectors.            *)
(***************************************************************************)
\* sizes of the systems solved: exact rationals of two iterations on a
\* larger system leave the range of TLC's integers
Dimensions == {1, 2}

AVals == {FromInt(-1), FromInt(1), FromInt(2)}
BVals == {FromInt(0), FromInt(1), FromInt(2)}
XVals == {FromInt(0), FromInt(1)}
Tolerances == {Zero, <<1, 2>>}

RECURSIVE SortPositions(_)
SortPositions(S) ==
    IF S = {} THEN <<>>
    ELSE LET m == CHOOSE q \in S : \A t \in S : q = t \/ LexLess(q, t)
         IN  <<m>> \o SortPositions(S \ {m})

CooOf(n, S, f) ==
    LET ps == SortPositions(S)
    IN  coo_matrix(n, n, Len(ps),
                   [k \in 1 .. Len(ps) |-> ps[k][1]],
                   [k \in 1 .. Len(ps) |-> ps[k][2]],
                   [k \in 1 .. Len(ps) |-> f[ps[k]]])

SquareMatrices(n) ==
    UNION { { CooOf(n, S, f) : f \in [S -> AVals] } :
            S \in { T \in SUBSET ((0 .. n - 1) \X (0 .. n - 1)) :
                    Cardinality(T) <= MaxEntries } }

Vectors(n, V) == [0 .. n - 1 -> V]

\* initial guesses: the vectors with all elements equal
Guesses(n) == { [i \in 0 .. n - 1 |-> v] : v \in XVals }

Identity(n) ==
    coo_matrix(n, n, n, [k \in 1 .. n |-> k - 1], [k \in 1 .. n |-> k - 1],
               [k \in 1 .. n |-> One])

\* A = I, b = (1, 2, 3), x0 = 0
IdentityScenario ==
    [A |-> Identity(3), x |-> [i \in 0 .. 2 |-> Zero],
     b |-> [i \in 0 .. 2 |-> FromInt(i + 1)]]

Systems ==
    UNION { { [A |-> M, x |-> g, b |-> c] :
              M \in SquareMatrices(n), g \in Guesses(n), c \in Vectors(n, BVals) } :
            n \in Dimensions }
    \cup {IdentityScenario}

IsIdentity(M) ==
    /\ M.num_rows = M.num_cols
    /\ \A i \in 0 .. M.num_rows - 1 : \A j \in 0 .. M.num_cols - 1 :
           EntryFrom(M, i, j, 1) = (IF i = j THEN One ELSE Zero)

(***************************************************************************)
(* State.  The first group is bicgstab's parameters and locals under       *)
(* their own names and pc, the statement about to run.  The second group   *)
(* observes a run: x_init is x on entry, outcome how the loop was left,    *)
(* calls the spmv / dotc / nrm2 calls made since the loop body was         *)
(* entered, head the values at the start of the current iteration,         *)
(* n_initialize and n_has_converged the calls made on the criterion,       *)
(* div_by_zero whether some division had a zero denominator, breakdown     *)
(* the first zero denominator of alpha or omega and x at that moment.      *)
(* mats and op are two coo_matrix objects and the last operation on them;  *)
(* spmv_* is one spmv call on an arbitrary output vector.                  *)
(***************************************************************************)
VARIABLES A, x, b, stopping_criteria, y, p, r, r_star, s, Mp, AMp, Ms,
          AMs, r_norm, r_r_star_old, r_r_star_new, alpha, omega, beta,
          iteration_number, pc, x_init, outcome, calls, head,
          n_initialize, n_has_converged, div_by_zero, breakdown, mats,
          op, spmv_A, spmv_x, spmv_y, spmv_y0, spmv_calls

vars == <<A, x, b, stopping_criteria, y, p, r, r_star, s, Mp, AMp, Ms,
          AMs, r_norm, r_r_star_old, r_r_star_new, alpha, omega, beta,
          iteration_number, pc, x_init, outcome, calls, head,
          n_initialize, n_has_converged, div_by_zero, breakdown, mats,
          op, spmv_A, spmv_x, spmv_y, spmv_y0, spmv_calls>>

solverVars == <<A, x, b, stopping_criteria, y, p, r, r_star, s, Mp, AMp,
                Ms, AMs, r_norm, r_r_star_old, r_r_star_new, alpha,
                omega, beta, iteration_number, pc, x_init, outcome,
                calls, head, n_initialize, n_has_converged, div_by_zero,
                breakdown>>

cooVars == <<mats, op>>

spmvVars == <<spmv_A, spmv_x, spmv_y, spmv_y0, spmv_calls>>

(***************************************************************************)
(* Stopping criterion (cusp/stopping_criteria.h): relative residual        *)
(* || r || / || b || < relative_tolerance with an iteration limit.         *)
(* Norms are held as squares, so the tolerance is squared as well.         *)
(***************************************************************************)
initialize(sc, M, xv, bv) == [sc EXCEPT !.b_norm = Nrm2(bv)]

has_converged(sc, M, xv, bv, residual_norm) ==
    Less(Div(residual_norm, sc.b_norm),
         Mul(sc.relative_tolerance, sc.relative_tolerance))

has_reached_iteration_limit(sc, k) == k >= sc.iteration_limit

StoppingCriteria ==
    [relative_tolerance : Tolerances, iteration_limit : 0 .. MaxIter,
     b_norm : {Zero}]

NoCalls == [spmv |-> 0, dotc |-> 0, nrm2 |-> 0]

EmptyMatrix == coo_matrix(0, 0, 0, <<>>, <<>>, <<>>)

SolverIdle ==
    /\ A = EmptyMatrix /\ x = <<>> /\ b = <<>> /\ x_init = <<>>
    /\ stopping_criteria =
           [relative_tolerance |-> Zero, iteration_limit |-> 0, b_norm |-> Zero]
    /\ y = <<>> /\ p = <<>> /\ r = <<>> /\ r_star = <<>> /\ s = <<>>
    /\ Mp = <<>> /\ AMp = <<>> /\ Ms = <<>> /\ AMs = <<>>
    /\ r_norm = Zero /\ r_r_star_old = Zero /\ r_r_star_new = Zero
    /\ alpha = Zero /\ omega = Zero /\ beta = Zero
    /\ iteration_number = 0 /\ pc = "idle" /\ outcome = "running"
    /\ calls = NoCalls
    /\ head = [x |-> <<>>, r |-> <<>>, p |-> <<>>, r_r_star_old |-> Zero]
    /\ n_initialize = 0 /\ n_has_converged = 0
    /\ div_by_zero = FALSE
    /\ breakdown = [kind |-> "none", x |-> <<>>]

CooIdle ==
    /\ mats = [o \in {1, 2} |-> EmptyMatrix]
    /\ op = "idle"

SpmvIdle ==
    /\ spmv_A = EmptyMatrix /\ spmv_x = <<>> /\ spmv_y = <<>>
    /\ spmv_y0 = <<>> /\ spmv_calls = 0

(***************************************************************************)
(* bicgstab(A, x, b, stopping_criteria): entry, lines 39-62.  The          *)
(* workspace arrays are allocated with N elements.                         *)
(***************************************************************************)
Init ==
    /\ \E sys \in Systems :
           /\ A = sys.A /\ x = sys.x /\ b = sys.b
           /\ y = [i \in 0 .. sys.A.num_rows - 1 |-> Zero]
    /\ stopping_criteria \in StoppingCriteria
    /\ x_init = x
    /\ p = y /\ r = y /\ r_star = y /\ s = y
    /\ Mp = y /\ AMp = y /\ Ms = y /\ AMs = y
    /\ r_norm = Zero /\ r_r_star_old = Zero /\ r_r_star_new = Zero
    /\ alpha = Zero /\ omega = Zero /\ beta = Zero
    /\ iteration_number = 0 /\ pc = "initialize" /\ outcome = "running"
    /\ calls = NoCalls
    /\ head = [x |-> x, r |-> y, p |-> y, r_r_star_old |-> Zero]
    /\ n_initialize = 0 /\ n_has_converged = 0
    /\ div_by_zero = FALSE
    /\ breakdown = [kind |-> "none", x |-> x]
    /\ CooIdle /\ SpmvIdle

\* line 65: stopping_criteria.initialize(A, x, b)
Initialize ==
    /\ pc = "initialize"
    /\ stopping_criteria' = initialize(stopping_criteria, A, x, b)
    /\ n_initialize' = n_initialize + 1
    /\ pc' = "residual"
    /\ UNCHANGED <<A, x, b, y, p, r, r_star, s, Mp, AMp, Ms, AMs, r_norm,
                 r_r_star_old, r_r_star_new, alpha, omega, beta,
                 iteration_number, x_init, outcome, calls, head,
                 n_has_converged, div_by_zero, breakdown, mats, op,
                 spmv_A, spmv_x, spmv_y, spmv_y0, spmv_calls>>

\* lines 69-73 with x itself as the output vector of the first spmv
ComputeResidualIntoX ==
    /\ pc = "residual"
    /\ x' = Spmv(A, x, Fill(x, Zero))
    /\ r' = Axpby(b, x', One, Neg(One))
    /\ calls' = [calls EXCEPT !.spmv = @ + 1]
    /\ pc' = "copy"
    /\ UNCHANGED <<A, b, stopping_criteria, y, p, r_star, s, Mp, AMp, Ms,
                 AMs, r_norm, r_r_star_old, r_r_star_new, alpha, omega,
                 beta, iteration_number, x_init, outcome, head,
                 n_initialize, n_has_converged, div_by_zero, breakdown,
                 mats, op, spmv_A, spmv_x, spmv_y, spmv_y0, spmv_calls>>

\* lines 69-73: y <- A*x; r <- b - A*x
ComputeResidual ==
    /\ pc = "residual"
    /\ y' = Spmv(A, x, Fill(y, Zero))
    /\ r' = Axpby(b, y', One, Neg(One))
    /\ calls' = [calls EXCEPT !.spmv = @ + 1]
    /\ pc' = "copy"
    /\ UNCHANGED <<A, x, b, stopping_criteria, p, r_star, s, Mp, AMp, Ms,
                 AMs, r_norm, r_r_star_old, r_r_star_new, alpha, omega,
                 beta, iteration_number, x_init, outcome, head,
                 n_initialize, n_has_converged, div_by_zero, breakdown,
                 mats, op, spmv_A, spmv_x, spmv_y, spmv_y0, spmv_calls>>

\* lines 76-79: p <- r; r_star <- r
CopyResidual ==
    /\ pc = "copy"
    /\ p' = Copy(r)
    /\ r_star' = Copy(r)
    /\ pc' = "nrm2"
    /\ UNCHANGED <<A, x, b, stopping_criteria, y, r, s, Mp, AMp, Ms, AMs,
                 r_norm, r_r_star_old, r_r_star_new, alpha, omega,
                 beta, iteration_number, x_init, outcome, calls, head,
                 n_initialize, n_has_converged, div_by_zero, breakdown,
                 mats, op, spmv_A, spmv_x, spmv_y, spmv_y0, spmv_calls>>

\* line 82: r_norm <- || r ||
InitialNorm ==
    /\ pc = "nrm2"
    /\ r_norm' = Nrm2(r)
    /\ calls' = [calls EXCEPT !.nrm2 = @ + 1]
    /\ pc' = "dotc"
    /\ UNCHANGED <<A, x, b, stopping_criteria, y, p, r, r_star, s, Mp,
                 AMp, Ms, AMs, r_r_star_old, r_r_star_new, alpha,
                 omega, beta, iteration_number, x_init, outcome, head,
                 n_initialize, n_has_converged, div_by_zero, breakdown,
                 mats, op, spmv_A, spmv_x, spmv_y, spmv_y0, spmv_calls>>

\* lines 84-89: r_r_star_old <- (r_star, r); iteration_number <- 0
InitialRRStar ==
    /\ pc = "dotc"
    /\ r_r_star_old' = Dotc(r_star, r)
    /\ iteration_number' = 0
    /\ calls' = [calls EXCEPT !.dotc = @ + 1]
    /\ pc' = "has_converged"
    /\ UNCHANGED <<A, x, b, stopping_criteria, y, p, r, r_star, s, Mp,
                 AMp, Ms, AMs, r_norm, r_r_star_new, alpha, omega,
                 beta, x_init, outcome, head, n_initialize,
                 n_has_converged, div_by_zero, breakdown, mats, op,
                 spmv_A, spmv_x, spmv_y, spmv_y0, spmv_calls>>

\* lines 93-105 with the two tests exchanged: the limit is tested first
CheckLimitBeforeConverged ==
    /\ pc = "has_converged"
    /\ n_has_converged' = n_has_converged + 1
    /\ outcome' = IF has_reached_iteration_limit(stopping_criteria, iteration_number)
                    THEN "iteration_limit"
                    ELSE IF has_converged(stopping_criteria, A, x, b, r_norm)
                         THEN "converged" ELSE outcome
    /\ pc' = IF \/ has_reached_iteration_limit(stopping_criteria, iteration_number)
                \/ has_converged(stopping_criteria, A, x, b, r_norm)
               THEN "done" ELSE "has_reached_iteration_limit"
    /\ UNCHANGED <<A, x, b, stopping_criteria, y, p, r, r_star, s, Mp,
                 AMp, Ms, AMs, r_norm, r_r_star_old, r_r_star_new,
                 alpha, omega, beta, iteration_number, x_init, calls,
                 head, n_initialize, div_by_zero, breakdown, mats, op,
                 spmv_A, spmv_x, spmv_y, spmv_y0, spmv_calls>>

\* lines 93-98: leave the loop when the criterion reports convergence
CheckConverged ==
    /\ pc = "has_converged"
    /\ n_has_converged' = n_has_converged + 1
    /\ outcome' = IF has_converged(stopping_criteria, A, x, b, r_norm)
                    THEN "converged" ELSE outcome
    /\ pc' = IF has_converged(stopping_criteria, A, x, b, r_norm)
               THEN "done" ELSE "has_reached_iteration_limit"
    /\ UNCHANGED <<A, x, b, stopping_criteria, y, p, r, r_star, s, Mp,
                 AMp, Ms, AMs, r_norm, r_r_star_old, r_r_star_new,
                 alpha, omega, beta, iteration_number, x_init, calls,
                 head, n_initialize, div_by_zero, breakdown, mats, op,
                 spmv_A, spmv_x, spmv_y, spmv_y0, spmv_calls>>

\* lines 100-105: leave the loop when the iteration limit is reached;
\* otherwise the loop body starts (head and calls observe the iteration)
CheckIterationLimit ==
    /\ pc = "has_reached_iteration_limit"
    /\ outcome' = IF has_reached_iteration_limit(stopping_criteria, iteration_number)
                    THEN "iteration_limit" ELSE outcome
    /\ pc' = IF has_reached_iteration_limit(stopping_criteria, iteration_number)
               THEN "done" ELSE "Mp"
    /\ head' = IF has_reached_iteration_limit(stopping_criteria, iteration_number)
                 THEN head
                 ELSE [x |-> x, r |-> r, p |-> p, r_r_star_old |-> r_r_star_old]
    /\ calls' = IF has_reached_iteration_limit(stopping_criteria, iteration_number)
                  THEN calls ELSE NoCalls
    /\ UNCHANGED <<A, x, b, stopping_criteria, y, p, r, r_star, s, Mp,
                 AMp, Ms, AMs, r_norm, r_r_star_old, r_r_star_new,
                 alpha, omega, beta, iteration_number, x_init,
                 n_initialize, n_has_converged, div_by_zero, breakdown,
                 mats, op, spmv_A, spmv_x, spmv_y, spmv_y0, spmv_calls>>

\* line 108: Mp <- M*p, M the identity
ApplyPrecondP ==
    /\ pc = "Mp"
    /\ Mp' = Copy(p)
    /\ pc' = "AMp"
    /\ UNCHANGED <<A, x, b, stopping_criteria, y, p, r, r_star, s, AMp,
                 Ms, AMs, r_norm, r_r_star_old, r_r_star_new, alpha,
                 omega, beta, iteration_number, x_init, outcome, calls,
                 head, n_initialize, n_has_converged, div_by_zero,
                 breakdown, mats, op, spmv_A, spmv_x, spmv_y, spmv_y0,
                 spmv_calls>>

\* lines 111-112: AMp <- A*Mp
SpmvAMp ==
    /\ pc = "AMp"
    /\ AMp' = Spmv(A, Mp, Fill(AMp, Zero))
    /\ calls' = [calls EXCEPT !.spmv = @ + 1]
    /\ pc' = "alpha"
    /\ UNCHANGED <<A, x, b, stopping_criteria, y, p, r, r_star, s, Mp,
                 Ms, AMs, r_norm, r_r_star_old, r_r_star_new, alpha,
                 omega, beta, iteration_number, x_init, outcome, head,
                 n_initialize, n_has_converged, div_by_zero, breakdown,
                 mats, op, spmv_A, spmv_x, spmv_y, spmv_y0, spmv_calls>>

\* line 115: alpha <- (r, r_star) / (A*M*p, r_star)
ComputeAlpha ==
    /\ pc = "alpha"
    /\ alpha' = Div(r_r_star_old, Dotc(r_star, AMp))
    /\ div_by_zero' = (div_by_zero \/ Dotc(r_star, AMp) = Zero)
    /\ breakdown' = IF breakdown.kind = "none" /\ Dotc(r_star, AMp) = Zero
                      THEN [kind |-> "alpha", x |-> x] ELSE breakdown
    /\ calls' = [calls EXCEPT !.dotc = @ + 1]
    /\ pc' = "s"
    /\ UNCHANGED <<A, x, b, stopping_criteria, y, p, r, r_star, s, Mp,
                 AMp, Ms, AMs, r_norm, r_r_star_old, r_r_star_new,
                 omega, beta, iteration_number, x_init, outcome, head,
                 n_initialize, n_has_converged, mats, op, spmv_A,
                 spmv_x, spmv_y, spmv_y0, spmv_calls>>

\* line 118: s <- r - alpha*AMp
ComputeS ==
    /\ pc = "s"
    /\ s' = Axpby(r, AMp, One, Neg(alpha))
    /\ pc' = "Ms"
    /\ UNCHANGED <<A, x, b, stopping_criteria, y, p, r, r_star, Mp, AMp,
                 Ms, AMs, r_norm, r_r_star_old, r_r_star_new, alpha,
                 omega, beta, iteration_number, x_init, outcome, calls,
                 head, n_initialize, n_has_converged, div_by_zero,
                 breakdown, mats, op, spmv_A, spmv_x, spmv_y, spmv_y0,
                 spmv_calls>>

\* line 121: Ms <- M*s, M the identity
ApplyPrecondS ==
    /\ pc = "Ms"
    /\ Ms' = Copy(s)
    /\ pc' = "AMs"
    /\ UNCHANGED <<A, x, b, stopping_criteria, y, p, r, r_star, s, Mp,
                 AMp, AMs, r_norm, r_r_star_old, r_r_star_new, alpha,
                 omega, beta, iteration_number, x_init, outcome, calls,
                 head, n_initialize, n_has_converged, div_by_zero,
                 breakdown, mats, op, spmv_A, spmv_x, spmv_y, spmv_y0,
                 spmv_calls>>

\* lines 124-125: AMs <- A*Ms
SpmvAMs ==
    /\ pc = "AMs"
    /\ AMs' = Spmv(A, Ms, Fill(AMs, Zero))
    /\ calls' = [calls EXCEPT !.spmv = @ + 1]
    /\ pc' = "omega"
    /\ UNCHANGED <<A, x, b, stopping_criteria, y, p, r, r_star, s, Mp,
                 AMp, Ms, r_norm, r_r_star_old, r_r_star_new, alpha,
                 omega, beta, iteration_number, x_init, outcome, head,
                 n_initialize, n_has_converged, div_by_zero, breakdown,
                 mats, op, spmv_A, spmv_x, spmv_y, spmv_y0, spmv_calls>>

\* line 128 with numerator and denominator from one fused reduction
ComputeOmegaFusedDot ==
    /\ pc = "omega"
    /\ omega' = Div(Dotc(AMs, s), Dotc(AMs, AMs))
    /\ div_by_zero' = (div_by_zero \/ Dotc(AMs, AMs) = Zero)
    /\ breakdown' = IF breakdown.kind = "none" /\ Dotc(AMs, AMs) = Zero
                      THEN [kind |-> "omega", x |-> x] ELSE breakdown
    /\ calls' = [calls EXCEPT !.dotc = @ + 1]
    /\ pc' = "x"
    /\ UNCHANGED <<A, x, b, stopping_criteria, y, p, r, r_star, s, Mp,
                 AMp, Ms, AMs, r_norm, r_r_star_old, r_r_star_new,
                 alpha, beta, iteration_number, x_init, outcome, head,
                 n_initialize, n_has_converged, mats, op, spmv_A,
                 spmv_x, spmv_y, spmv_y0, spmv_calls>>

\* line 128: omega <- (AMs, s) / (AMs, AMs)
ComputeOmega ==
    /\ pc = "omega"
    /\ omega' = Div(Dotc(AMs, s), Dotc(AMs, AMs))
    /\ div_by_zero' = (div_by_zero \/ Dotc(AMs, AMs) = Zero)
    /\ breakdown' = IF breakdown.kind = "none" /\ Dotc(AMs, AMs) = Zero
                      THEN [kind |-> "omega", x |-> x] ELSE breakdown
    /\ calls' = [calls EXCEPT !.dotc = @ + 2]
    /\ pc' = "x"
    /\ UNCHANGED <<A, x, b, stopping_criteria, y, p, r, r_star, s, Mp,
                 AMp, Ms, AMs, r_norm, r_r_star_old, r_r_star_new,
                 alpha, beta, iteration_number, x_init, outcome, head,
                 n_initialize, n_has_converged, mats, op, spmv_A,
                 spmv_x, spmv_y, spmv_y0, spmv_calls>>

\* line 131: x <- x + alpha*Mp + omega*Ms
UpdateX ==
    /\ pc = "x"
    /\ x' = Axpbypcz(x, Mp, Ms, One, alpha, omega)
    /\ pc' = "r"
    /\ UNCHANGED <<A, b, stopping_criteria, y, p, r, r_star, s, Mp, AMp,
                 Ms, AMs, r_norm, r_r_star_old, r_r_star_new, alpha,
                 omega, beta, iteration_number, x_init, outcome, calls,
                 head, n_initialize, n_has_converged, div_by_zero,
                 breakdown, mats, op, spmv_A, spmv_x, spmv_y, spmv_y0,
                 spmv_calls>>

\* line 134 with the wrong scalar: r <- s - alpha*AMs
UpdateRWithAlpha ==
    /\ pc = "r"
    /\ r' = Axpby(s, AMs, One, Neg(alpha))
    /\ pc' = "r_r_star_new"
    /\ UNCHANGED <<A, x, b, stopping_criteria, y, p, r_star, s, Mp, AMp,
                 Ms, AMs, r_norm, r_r_star_old, r_r_star_new, alpha,
                 omega, beta, iteration_number, x_init, outcome, calls,
                 head, n_initialize, n_has_converged, div_by_zero,
                 breakdown, mats, op, spmv_A, spmv_x, spmv_y, spmv_y0,
                 spmv_calls>>

\* line 134: r <- s - omega*AMs
UpdateR ==
    /\ pc = "r"
    /\ r' = Axpby(s, AMs, One, Neg(omega))
    /\ pc' = "r_r_star_new"
    /\ UNCHANGED <<A, x, b, stopping_criteria, y, p, r_star, s, Mp, AMp,
                 Ms, AMs, r_norm, r_r_star_old, r_r_star_new, alpha,
                 omega, beta, iteration_number, x_init, outcome, calls,
                 head, n_initialize, n_has_converged, div_by_zero,
                 breakdown, mats, op, spmv_A, spmv_x, spmv_y, spmv_y0,
                 spmv_calls>>

\* line 137: r_r_star_new <- (r_star, r)
ComputeRRStarNew ==
    /\ pc = "r_r_star_new"
    /\ r_r_star_new' = Dotc(r_star, r)
    /\ calls' = [calls EXCEPT !.dotc = @ + 1]
    /\ pc' = "beta"
    /\ UNCHANGED <<A, x, b, stopping_criteria, y, p, r, r_star, s, Mp,
                 AMp, Ms, AMs, r_norm, r_r_star_old, alpha, omega,
                 beta, iteration_number, x_init, outcome, head,
                 n_initialize, n_has_converged, div_by_zero, breakdown,
                 mats, op, spmv_A, spmv_x, spmv_y, spmv_y0, spmv_calls>>

\* line 138 run after line 139: the old (r, r_star) is already replaced
ComputeBetaAfterRotate ==
    /\ pc = "beta"
    /\ beta' = Mul(Div(r_r_star_new, r_r_star_new), Div(alpha, omega))
    /\ div_by_zero' = (div_by_zero \/ r_r_star_old = Zero \/ omega = Zero)
    /\ pc' = "rotate"
    /\ UNCHANGED <<A, x, b, stopping_criteria, y, p, r, r_star, s, Mp,
                 AMp, Ms, AMs, r_norm, r_r_star_old, r_r_star_new,
                 alpha, omega, iteration_number, x_init, outcome,
                 calls, head, n_initialize, n_has_converged, breakdown,
                 mats, op, spmv_A, spmv_x, spmv_y, spmv_y0, spmv_calls>>

\* line 138: beta <- (r_r_star_new / r_r_star_old) * (alpha / omega)
ComputeBeta ==
    /\ pc = "beta"
    /\ beta' = Mul(Div(r_r_star_new, r_r_star_old), Div(alpha, omega))
    /\ div_by_zero' = (div_by_zero \/ r_r_star_old = Zero \/ omega = Zero)
    /\ pc' = "rotate"
    /\ UNCHANGED <<A, x, b, stopping_criteria, y, p, r, r_star, s, Mp,
                 AMp, Ms, AMs, r_norm, r_r_star_old, r_r_star_new,
                 alpha, omega, iteration_number, x_init, outcome,
                 calls, head, n_initialize, n_has_converged, breakdown,
                 mats, op, spmv_A, spmv_x, spmv_y, spmv_y0, spmv_calls>>

\* line 139: r_r_star_old <- r_r_star_new
RotateRRStar ==
    /\ pc = "rotate"
    /\ r_r_star_old' = r_r_star_new
    /\ pc' = "p"
    /\ UNCHANGED <<A, x, b, stopping_criteria, y, p, r, r_star, s, Mp,
                 AMp, Ms, AMs, r_norm, r_r_star_new, alpha, omega,
                 beta, iteration_number, x_init, outcome, calls, head,
                 n_initialize, n_has_converged, div_by_zero, breakdown,
                 mats, op, spmv_A, spmv_x, spmv_y, spmv_y0, spmv_calls>>

\* line 142: p <- r + beta*(p - omega*AMp)
UpdateP ==
    /\ pc = "p"
    /\ p' = Axpbypcz(r, p, AMp, One, beta, Mul(Neg(beta), omega))
    /\ pc' = "r_norm"
    /\ UNCHANGED <<A, x, b, stopping_criteria, y, r, r_star, s, Mp, AMp,
                 Ms, AMs, r_norm, r_r_star_old, r_r_star_new, alpha,
                 omega, beta, iteration_number, x_init, outcome, calls,
                 head, n_initialize, n_has_converged, div_by_zero,
                 breakdown, mats, op, spmv_A, spmv_x, spmv_y, spmv_y0,
                 spmv_calls>>

\* line 144: r_norm <- || r ||
UpdateNorm ==
    /\ pc = "r_norm"
    /\ r_norm' = Nrm2(r)
    /\ calls' = [calls EXCEPT !.nrm2 = @ + 1]
    /\ pc' = "increment"
    /\ UNCHANGED <<A, x, b, stopping_criteria, y, p, r, r_star, s, Mp,
                 AMp, Ms, AMs, r_r_star_old, r_r_star_new, alpha,
                 omega, beta, iteration_number, x_init, outcome, head,
                 n_initialize, n_has_converged, div_by_zero, breakdown,
                 mats, op, spmv_A, spmv_x, spmv_y, spmv_y0, spmv_calls>>

\* line 146 with the increment lost: the loop never counts
IncrementIterationStuck ==
    /\ pc = "increment"
    /\ iteration_number' = iteration_number
    /\ pc' = "has_converged"
    /\ UNCHANGED <<A, x, b, stopping_criteria, y, p, r, r_star, s, Mp,
                 AMp, Ms, AMs, r_norm, r_r_star_old, r_r_star_new,
                 alpha, omega, beta, x_init, outcome, calls, head,
                 n_initialize, n_has_converged, div_by_zero, breakdown,
                 mats, op, spmv_A, spmv_x, spmv_y, spmv_y0, spmv_calls>>

\* line 146: iteration_number++
IncrementIteration ==
    /\ pc = "increment"
    /\ iteration_number' = iteration_number + 1
    /\ pc' = "has_converged"
    /\ UNCHANGED <<A, x, b, stopping_criteria, y, p, r, r_star, s, Mp,
                 AMp, Ms, AMs, r_norm, r_r_star_old, r_r_star_new,
                 alpha, omega, beta, x_init, outcome, calls, head,
                 n_initialize, n_has_converged, div_by_zero, breakdown,
                 mats, op, spmv_A, spmv_x, spmv_y, spmv_y0, spmv_calls>>

(***************************************************************************)
(* coo_matrix operations (cusp/coo_matrix.h; bodies in                     *)
(* cusp/detail/coo_matrix.inl).  mats holds two objects, both default      *)
(* constructed at first; op names the operation that produced the state.   *)
(***************************************************************************)
Objects == {1, 2}

Shapes == {<<2, 3>>}

CooIndices == {0, 1}

\* array1d<T>(n): n value-initialised elements
Alloc(n, c) == [k \in 1 .. n |-> c]

\* array1d<T>::resize(n): n elements, none of the old content promised
Resized(arr, n, c) == [k \in 1 .. n |-> c]

\* coo_matrix()
DefaultConstructed == coo_matrix(0, 0, 0, Alloc(0, 0), Alloc(0, 0), Alloc(0, Zero))

\* coo_matrix(num_rows, num_cols, num_entries)
ShapeConstructed(rows, cols, entries) ==
    coo_matrix(rows, cols, entries,
               Alloc(entries, 0), Alloc(entries, 0), Alloc(entries, Zero))

\* a copy that writes each index array into the other one
CopyOfCrossed(M) ==
    coo_matrix(M.num_rows, M.num_cols, M.num_entries,
               [k \in 1 .. Len(M.column_indices) |-> M.column_indices[k]],
               [k \in 1 .. Len(M.row_indices) |-> M.row_indices[k]],
               [k \in 1 .. Len(M.values) |-> M.values[k]])

\* coo_matrix(const coo_matrix&) and operator=: a deep element-wise copy
CopyOf(M) ==
    coo_matrix(M.num_rows, M.num_cols, M.num_entries,
               [k \in 1 .. Len(M.row_indices) |-> M.row_indices[k]],
               [k \in 1 .. Len(M.column_indices) |-> M.column_indices[k]],
               [k \in 1 .. Len(M.values) |-> M.values[k]])

\* resize(num_rows, num_cols, num_entries)
ResizedMatrix(M, rows, cols, entries) ==
    coo_matrix(rows, cols, entries,
               Resized(M.row_indices, entries, 0),
               Resized(M.column_indices, entries, 0),
               Resized(M.values, entries, Zero))

\* a swap of the arrays that leaves the shape of the base class in place
SwappedArraysOnly(M, other) ==
    coo_matrix(M.num_rows, M.num_cols, M.num_entries,
               other.row_indices, other.column_indices, other.values)

\* what swap leaves in the object swap was called on, given the other one
SwappedWith(M, other) ==
    coo_matrix(other.num_rows, other.num_cols, other.num_entries,
               other.row_indices, other.column_indices, other.values)

DefaultConstruct(o) ==
    /\ mats' = [mats EXCEPT ![o] = DefaultConstructed]
    /\ op' = "default"
    /\ UNCHANGED <<solverVars, spmvVars>>

ShapeConstruct(o, rows, cols, entries) ==
    /\ mats' = [mats EXCEPT ![o] = ShapeConstructed(rows, cols, entries)]
    /\ op' = "shape"
    /\ UNCHANGED <<solverVars, spmvVars>>

CopyConstruct(o, q) ==
    /\ o # q
    /\ mats' = [mats EXCEPT ![o] = CopyOf(mats[q])]
    /\ op' = "copy"
    /\ UNCHANGED <<solverVars, spmvVars>>

Resize(o, rows, cols, entries) ==
    /\ mats' = [mats EXCEPT ![o] = ResizedMatrix(mats[o], rows, cols, entries)]
    /\ op' = "resize"
    /\ UNCHANGED <<solverVars, spmvVars>>

Assign(o, q) ==
    /\ o # q
    /\ mats' = [mats EXCEPT ![o] = CopyOf(mats[q])]
    /\ op' = "assign"
    /\ UNCHANGED <<solverVars, spmvVars>>

Swap(o, q) ==
    /\ o # q
    /\ mats' = [mats EXCEPT ![o] = SwappedWith(mats[o], mats[q]),
                            ![q] = SwappedWith(mats[q], mats[o])]
    /\ op' = "swap"
    /\ UNCHANGED <<solverVars, spmvVars>>

\* the caller fills entry k through the public arrays (coo_matrix.h:88-93)
SetEntry(o, k, i, j) ==
    /\ k \in 1 .. mats[o].num_entries
    /\ mats' = [mats EXCEPT ![o].row_indices[k] = i,
                            ![o].column_indices[k] = j,
                            ![o].values[k] = One]
    /\ op' = "set"
    /\ UNCHANGED <<solverVars, spmvVars>>

InitCoo ==
    /\ mats = [o \in Objects |-> DefaultConstructed]
    /\ op = "default"
    /\ SolverIdle /\ SpmvIdle

NextCoo ==
    \/ \E o \in Objects : DefaultConstruct(o)
    \/ \E o \in Objects, sh \in Shapes, n \in 0 .. MaxCooEntries :
           ShapeConstruct(o, sh[1], sh[2], n)
    \/ \E o, q \in Objects : CopyConstruct(o, q)
    \/ \E o \in Objects, sh \in Shapes, n \in 0 .. MaxCooEntries :
           Resize(o, sh[1], sh[2], n)
    \/ \E o, q \in Objects : Assign(o, q)
    \/ \E o, q \in Objects : Swap(o, q)
    \/ \E o \in Objects, k \in 1 .. MaxCooEntries, i, j \in CooIndices :
           SetEntry(o, k, i, j)

SpecCoo == InitCoo /\ [][NextCoo]_vars

(***************************************************************************)
(* One spmv call, as check_spmv of performance/benchmark.h makes it, on an *)
(* output vector with arbitrary prior content; the call may be repeated.   *)
(***************************************************************************)
RectMatrices(rows, cols) ==
    UNION { { LET ps == SortPositions(S)
              IN  coo_matrix(rows, cols, Len(ps),
                             [k \in 1 .. Len(ps) |-> ps[k][1]],
                             [k \in 1 .. Len(ps) |-> ps[k][2]],
                             [k \in 1 .. Len(ps) |-> f[ps[k]]]) :
              f \in [S -> AVals] } :
            S \in { T \in SUBSET ((0 .. rows - 1) \X (0 .. cols - 1)) :
                    Cardinality(T) <= MaxEntries } }

InitSpmv ==
    /\ \E rows \in Dimensions, cols \in Dimensions :
           /\ spmv_A \in RectMatrices(rows, cols)
           /\ spmv_x \in Vectors(cols, XVals)
           /\ spmv_y0 \in Vectors(rows, XVals)
    /\ spmv_y = spmv_y0
    /\ spmv_calls = 0
    /\ SolverIdle /\ CooIdle

CallSpmv ==
    /\ spmv_calls < MaxCalls
    /\ spmv_y' = Spmv(spmv_A, spmv_x, spmv_y)
    /\ spmv_calls' = spmv_calls + 1
    /\ UNCHANGED <<spmv_A, spmv_x, spmv_y0, solverVars, cooVars>>

NextSpmv == CallSpmv

SpecSpmv == InitSpmv /\ [][NextSpmv]_vars

Next ==
    \/ Initialize \/ ComputeResidual \/ CopyResidual \/ InitialNorm
    \/ InitialRRStar \/ CheckConverged \/ CheckIterationLimit
    \/ ApplyPrecondP \/ SpmvAMp \/ ComputeAlpha \/ ComputeS
    \/ ApplyPrecondS \/ SpmvAMs \/ ComputeOmega \/ UpdateX \/ UpdateR
    \/ ComputeRRStarNew \/ ComputeBeta \/ RotateRRStar \/ UpdateP
    \/ UpdateNorm \/ IncrementIteration

Spec == Init /\ [][Next]_vars

(***************************************************************************)
(* Properties of the solver.                                               *)
(***************************************************************************)
ZeroVec(v) == [i \in DOMAIN v |-> Zero]

\* b - A*x with the mathematical product
Residual(M, xv, bv) == Axpby(bv, MatVec(M, xv), One, Neg(One))

\* C1: when the denominator of alpha or of omega is zero the solver reports
\* a BreakdownError and runs no further statement.
C1_BreakdownReported ==
    breakdown.kind # "none" => (pc = "done" /\ outcome = "BreakdownError")

\* C2: for A = I, x0 = 0 and a residual criterion that allows an iteration,
\* the solver returns after exactly one iteration with x = b.
C2_IdentityOneIteration ==
    ( /\ pc = "done"
      /\ IsIdentity(A)
      /\ x_init = ZeroVec(x_init)
      /\ stopping_criteria.relative_tolerance # Zero
      /\ stopping_criteria.iteration_limit >= 1 )
    => (iteration_number = 1 /\ x = b)

\* C3: after a breakdown x still holds the iterate it held when the zero
\* denominator was met.
C3_IterateKept == breakdown.kind # "none" => x = breakdown.x

\* C4: with a criterion whose limit is K the loop is left only by
\* convergence or by the limit, its head is reached at most K + 1 times, its
\* body runs only while fewer than K iterations are complete, and the run
\* ends.
C4_Bounded ==
    /\ n_has_converged <= stopping_criteria.iteration_limit + 1
    /\ iteration_number <= stopping_criteria.iteration_limit
    /\ (pc \notin {"initialize", "residual", "copy", "nrm2", "dotc",
                   "has_converged", "has_reached_iteration_limit", "done"}
           => iteration_number < stopping_criteria.iteration_limit)
    /\ (pc = "done" => outcome \in {"converged", "iteration_limit"})
    /\ (pc = "done" /\ outcome = "iteration_limit"
           => iteration_number = stopping_criteria.iteration_limit)

\* statements left in the current loop pass, counted from the statement at pc
StatementsLeft ==
    CASE pc = "initialize" -> 24 [] pc = "residual" -> 23 [] pc = "copy" -> 22
      [] pc = "nrm2" -> 21 [] pc = "dotc" -> 20
      [] pc = "has_converged" -> 19 [] pc = "has_reached_iteration_limit" -> 18
      [] pc = "Mp" -> 17 [] pc = "AMp" -> 16 [] pc = "alpha" -> 15
      [] pc = "s" -> 14 [] pc = "Ms" -> 13 [] pc = "AMs" -> 12
      [] pc = "omega" -> 11 [] pc = "x" -> 10 [] pc = "r" -> 9
      [] pc = "r_r_star_new" -> 8 [] pc = "beta" -> 7 [] pc = "rotate" -> 6
      [] pc = "p" -> 5 [] pc = "r_norm" -> 4 [] pc = "increment" -> 3
      [] OTHER -> 0

\* a bound on the statements a run can still execute
Rank ==
    IF pc = "done" THEN 0
    ELSE (stopping_criteria.iteration_limit - iteration_number) * 25
         + StatementsLeft

\* every statement lowers Rank, which is never negative: no run is infinite
C4_Terminates ==
    /\ [](C4_Bounded /\ Rank >= 0)
    /\ [][Rank' < Rank]_vars

C4_Witness ==
    /\ pc = "done" /\ outcome = "iteration_limit"
    /\ iteration_number = stopping_criteria.iteration_limit
    /\ iteration_number >= 2

\* C5 as stated: a completed iteration has made two spmv calls and four
\* reductions, three dotc and one nrm2.
C5_ThreeDots ==
    (pc = "has_converged" /\ iteration_number > 0)
    => calls = [spmv |-> 2, dotc |-> 3, nrm2 |-> 1]

\* C5 amended: a completed iteration has made two spmv calls and five
\* reductions, four dotc and one nrm2.
C5_FourDots ==
    (pc = "has_converged" /\ iteration_number > 0)
    => calls = [spmv |-> 2, dotc |-> 4, nrm2 |-> 1]

C5_Witness == pc = "has_converged" /\ iteration_number > 0 /\ ~div_by_zero

\* C9: at the end of an iteration every quantity is the one the step list
\* gives, computed from the values at the start of the iteration in the
\* listed order; the criterion is consulted once per loop pass with the norm
\* of the newest r, and initialize is called once, before any consultation.
C9_StepOrder ==
    /\ n_initialize <= 1
    /\ (n_has_converged > 0 => n_initialize = 1)
    /\ (pc = "has_reached_iteration_limit"
           => n_has_converged = iteration_number + 1 /\ r_norm = Nrm2(r))
    /\ (pc = "increment" =>
           LET AMp0 == Spmv(A, head.p, ZeroVec(head.p))
               alpha0 == Div(head.r_r_star_old, Dotc(r_star, AMp0))
               s0 == Axpby(head.r, AMp0, One, Neg(alpha0))
               AMs0 == Spmv(A, s0, ZeroVec(s0))
               omega0 == Div(Dotc(AMs0, s0), Dotc(AMs0, AMs0))
               x1 == Axpbypcz(head.x, head.p, s0, One, alpha0, omega0)
               r1 == Axpby(s0, AMs0, One, Neg(omega0))
               beta0 == Mul(Div(Dotc(r_star, r1), head.r_r_star_old),
                            Div(alpha0, omega0))
           IN  /\ alpha = alpha0 /\ s = s0 /\ omega = omega0
               /\ x = x1 /\ r = r1 /\ beta = beta0
               /\ r_r_star_old = Dotc(r_star, r1)
               /\ p = Axpbypcz(r1, head.p, AMp0, One, beta0,
                               Mul(Neg(beta0), omega0))
               /\ r_norm = Nrm2(r1)
               /\ n_has_converged = iteration_number + 1)

C9_Witness ==
    /\ pc = "increment" /\ ~div_by_zero
    /\ beta # Zero /\ beta # One /\ head.x # x /\ head.p # p

\* C10: at the loop head, when no division so far had a zero denominator,
\* r = b - A*x, r_star = b - A*x0 and r_r_star_old = (r_star, r), all finite.
C10_ResidualInvariant ==
    (pc = "has_converged" /\ ~div_by_zero)
    => /\ IsFiniteVec(x) /\ IsFiniteVec(r)
       /\ r = Residual(A, x, b)
       /\ r_star = Residual(A, x_init, b)
       /\ r_r_star_old = Dotc(r_star, r)

C10_Witness ==
    /\ pc = "has_converged" /\ ~div_by_zero /\ iteration_number >= 1
    /\ r # ZeroVec(r) /\ x # x_init

\* C11: a run that is ended by the first consultation of the criterion has
\* completed no iteration and returns x equal to the initial guess; no
\* statement of any run changes b.
C11_Frame ==
    /\ []((pc = "done" /\ n_has_converged = 1)
             => (iteration_number = 0 /\ x = x_init))
    /\ [][b' = b]_vars

C11_Witness ==
    /\ pc = "done" /\ n_has_converged = 1
    /\ x_init # ZeroVec(x_init) /\ A.num_entries > 0 /\ b # x_init

\* C12: has_converged is consulted before has_reached_iteration_limit, which
\* is asked about the number of iterations completed so far (one less than
\* the consultations made); a run whose residual has converged when the
\* limit is reached ends as converged, and a run ended by the limit returns
\* normally, at exactly the limit and unconverged.
C12_ConsultationOrder ==
    /\ outcome \in {"running", "converged", "iteration_limit"}
    /\ (pc = "has_reached_iteration_limit"
           => /\ ~has_converged(stopping_criteria, A, x, b, r_norm)
              /\ iteration_number = n_has_converged - 1)
    /\ (pc = "done"
           => /\ iteration_number = n_has_converged - 1
              /\ outcome = (IF has_converged(stopping_criteria, A, x, b, r_norm)
                            THEN "converged" ELSE "iteration_limit")
              /\ (outcome = "iteration_limit" =>
                     has_reached_iteration_limit(stopping_criteria,
                                                 iteration_number)))

C12_Witness ==
    /\ pc = "done" /\ outcome = "converged"
    /\ iteration_number >= 1
    /\ has_reached_iteration_limit(stopping_criteria, iteration_number)

(***************************************************************************)
(* Properties of coo_matrix and spmv.                                      *)
(***************************************************************************)
LengthsAgree(M) ==
    /\ Len(M.row_indices) = M.num_entries
    /\ Len(M.column_indices) = M.num_entries
    /\ Len(M.values) = M.num_entries

\* C6: the three arrays always have num_entries elements; a default
\* constructed matrix has shape 0 x 0 with 0 entries; swap exchanges shape
\* and arrays of the two matrices.
C6_ShapeInvariant ==
    /\ [](\A o \in Objects : LengthsAgree(mats[o]))
    /\ [][ /\ \A o \in Objects : DefaultConstruct(o) =>
                  /\ mats'[o].num_rows = 0 /\ mats'[o].num_cols = 0
                  /\ mats'[o].num_entries = 0
           /\ \A o, q \in Objects : Swap(o, q) =>
                  mats'[o] = mats[q] /\ mats'[q] = mats[o] ]_vars

C6_Witness ==
    /\ op = "swap"
    /\ mats[1].num_entries = 2 /\ mats[1].num_rows = 2
    /\ mats[2].num_entries = 0 /\ mats[2].num_rows = 0

Constructs(o) ==
    \/ DefaultConstruct(o)
    \/ \E sh \in Shapes, n \in 0 .. MaxCooEntries : ShapeConstruct(o, sh[1], sh[2], n)
    \/ \E q \in Objects : CopyConstruct(o, q)

\* C7 as stated: every construction leaves the (row, column) pairs strictly
\* increasing.
C7_SortedAfterConstruction ==
    [][\A o \in Objects : Constructs(o) => IsSorted(mats'[o])]_vars

\* C7 amended: default construction, and copy construction from a matrix
\* whose pairs are strictly increasing, leave the pairs strictly increasing.
C7_SortedAfterCopy ==
    [][\A o \in Objects :
          ( \/ DefaultConstruct(o)
            \/ \E q \in Objects : CopyConstruct(o, q) /\ IsSorted(mats[q]) )
          => IsSorted(mats'[o]) ]_vars

C7_Witness ==
    /\ op = "copy"
    /\ mats[1].num_entries = 2 /\ IsSorted(mats[1]) /\ mats[2] = mats[1]
    /\ mats[1].row_indices # mats[1].column_indices

=============================================================================
